---------------------------- MODULE Spec2Model ----------------------------
(***************************************************************************)
(* The album web service of src/main.go: an HTTP router and handlers in    *)
(* front of an in-memory store guarded by a lock.  src/main.go holds two   *)
(* variants of the program: the richer one (lines 1-305: JSON error        *)
(* envelopes, price validation, sync.RWMutex) and the leaner one (lines    *)
(* 307-553: plain-text errors, no price rule, sync.Mutex).  The variable   *)
(* `variant' says which of the two programs is running.                    *)
(*                                                                         *)
(* Strings that the code inspects character by character (the URL path,    *)
(* the album ID) are sequences of one-character strings; strings of which  *)
(* the code only tests emptiness (title, artist) are TLA+ strings.         *)
(***************************************************************************)
EXTENDS Integers, Sequences, FiniteSets, TLC

\* ------------------------------------------------------------ bounds
\* Number of goroutines serving requests concurrently.
NumClients == 2

Clients == 1..NumClients

\* ------------------------------------------------------------ constants
StatusOK == 200
StatusCreated == 201
StatusBadRequest == 400
StatusNotFound == 404
StatusMethodNotAllowed == 405
StatusConflict == 409
StatusInternalServerError == 500
\* Exclusive upper bound of a valid price (richer variant).
PriceLimit == 100000

ErrorAlreadyExists == "already-exists"
ErrorDatabase == "database"
ErrorInternal == "internal"
ErrorMalformedJSON == "malformed-json"
ErrorMethodNotAllowed == "method-not-allowed"
ErrorNotFound == "not-found"
ErrorValidation == "validation"

\* The store's error values (nil is "nil").
ErrDoesNotExist == "does not exist"
ErrAlreadyExists == "already exists"

ContentTypeJSON == "application/json; charset=utf-8"
ContentTypeJSONPlain == "application/json"
ContentTypeText == "text/plain; charset=utf-8"

\* ------------------------------------------------------------ strings
\* The byte value of each character used, for Go's string comparison.
ByteOf == ("/" :> 47) @@ ("a" :> 97) @@ ("b" :> 98) @@ ("c" :> 99) @@
          ("l" :> 108) @@ ("m" :> 109) @@ ("s" :> 115) @@ ("u" :> 117) @@
          ("x" :> 120)

RECURSIVE StrLess(_, _)
\* Go's s < t on strings: bytewise lexicographic.
StrLess(s, t) ==
    IF t = <<>> THEN FALSE
    ELSE IF s = <<>> THEN TRUE
    ELSE IF Head(s) = Head(t) THEN StrLess(Tail(s), Tail(t))
    ELSE ByteOf[Head(s)] < ByteOf[Head(t)]

\* The literal "/albums".
AlbumsPath == <<"/", "a", "l", "b", "u", "m", "s">>
\* The literal "/albums/".
AlbumsPrefix == AlbumsPath \o <<"/">>

\* ------------------------------------------------------------ albums
\* The zero value Album{}.
ZeroAlbum == [ID |-> <<>>, Title |-> "", Artist |-> "", Price |-> 0]

AlbumFields == {"id", "title", "artist", "price"}

\* A JSON object on the wire: `has' is the set of keys present; the value
\* of a key that is not present is not on the wire (kept as the zero value).
WireObject(has, a) ==
    [kind |-> "obj", has |-> has,
     id |-> IF "id" \in has THEN a.ID ELSE <<>>,
     title |-> IF "title" \in has THEN a.Title ELSE "",
     artist |-> IF "artist" \in has THEN a.Artist ELSE "",
     price |-> IF "price" \in has THEN a.Price ELSE 0]

\* json.Unmarshal(b, &album) into a zero Album: a key that is present sets
\* its field, a key that is absent leaves the zero value.
Unmarshal(j) ==
    [ID |-> IF "id" \in j.has THEN j.id ELSE ZeroAlbum.ID,
     Title |-> IF "title" \in j.has THEN j.title ELSE ZeroAlbum.Title,
     Artist |-> IF "artist" \in j.has THEN j.artist ELSE ZeroAlbum.Artist,
     Price |-> IF "price" \in j.has THEN j.price ELSE ZeroAlbum.Price]

\* json.MarshalIndent of an Album: the richer variant tags Price with
\* omitempty (a zero price is left out), the leaner one does not.
MarshalAlbum(v, a) ==
    WireObject(IF v = 1 /\ a.Price = 0 THEN AlbumFields \ {"price"}
               ELSE AlbumFields, a)

\* json.MarshalIndent of []Album.
MarshalAlbums(v, as) == [i \in 1..Len(as) |-> MarshalAlbum(v, as[i])]


\* ------------------------------------------------------------ requests
\* A request is [method, path, body].  The body is a reader that fails
\* ("readerr"), bytes that are not a JSON object of the album's shape
\* ("bad", such as a single @), or a JSON object ("obj").
NoBody == [kind |-> "none"]
ReadErrBody == [kind |-> "readerr"]
BadBody == [kind |-> "bad"]
\* Bytes that stop before the JSON value is complete (such as no bytes).
TruncatedBody == [kind |-> "bad", truncated |-> TRUE]

\* err.Error() of the error json.Unmarshal returns for a body it cannot
\* parse: the parser's diagnostic says what it found and where.
UnmarshalError(b) ==
    IF b = BadBody THEN "invalid character '@' looking for beginning of value"
    ELSE "unexpected end of JSON input"

Request(m, p, b) == [method |-> m, path |-> p, body |-> b]

\* ------------------------------------------------------------ responses
\* A response is what the ResponseWriter holds when the handler returns:
\* the status, the Content-Type and Allow headers as they are when the
\* status line is written ("" when not set), and the body.
NoResp == [status |-> 0, ctype |-> "", allow |-> "", body |-> [kind |-> "none"]]

NilData == [kind |-> "nil"]

\* Mutant: writeJSON that sets Content-Type after w.WriteHeader, too late
\* for the header to be part of the response.
writeJSON_LateHeader(allow, status, v) ==
    [status |-> status, ctype |-> "", allow |-> allow, body |-> v]

\* Server.writeJSON (richer variant): Content-Type is set before the status
\* is written.  MarshalIndent cannot fail on the values the server passes
\* (albums, slices of albums, the error struct).
writeJSON(allow, status, v) ==
    [status |-> status, ctype |-> ContentTypeJSON, allow |-> allow, body |-> v]

\* Server.jsonError: the envelope {status, error, data}; data is tagged
\* omitempty, so a nil map is left out of the JSON.
jsonError(allow, status, error, data) ==
    writeJSON(allow, status,
              [kind |-> "error", status |-> status, error |-> error,
               hasData |-> data.kind # "nil", data |-> data])

\* http.Error (leaner variant): a plain-text body and content type.
\* `args' is what the handler appends to the fixed text.
httpError(text, args, status) ==
    [status |-> status, ctype |-> ContentTypeText, allow |-> "",
     body |-> [kind |-> "text", text |-> text, args |-> args]]

\* writeJSON of the leaner variant after an explicit or implicit status:
\* with statusWritten (w.WriteHeader was called before writeJSON) the
\* Content-Type header is set too late to be part of the response.
writeJSON2(status, statusWritten, v) ==
    [status |-> status,
     ctype |-> IF statusWritten THEN "" ELSE ContentTypeJSONPlain,
     allow |-> "", body |-> v]

\* ------------------------------------------------------------ routing
\* Mutant: the pattern ^/albums/(.+)$, which lets slashes into the id.
match_AnyRest(path) ==
    /\ Len(path) > Len(AlbumsPrefix)
    /\ SubSeq(path, 1, Len(AlbumsPrefix)) = AlbumsPrefix

\* reAlbumsID = ^/albums/([^/]+)$ : the path is "/albums/" followed by one
\* or more characters none of which is a slash.
match(path) ==
    /\ Len(path) > Len(AlbumsPrefix)
    /\ SubSeq(path, 1, Len(AlbumsPrefix)) = AlbumsPrefix
    /\ \A i \in (Len(AlbumsPrefix) + 1)..Len(path) : path[i] # "/"

\* The capture group of reAlbumsID (path[len("/albums/"):] in the leaner
\* variant).
matchID(path) == SubSeq(path, Len(AlbumsPrefix) + 1, Len(path))

\* ------------------------------------------------------------ addAlbum
Required == [error |-> "required", message |-> ""]
OutOfRange == [error |-> "out-of-range",
               message |-> "price must be between 0 and $1000"]

\* issues[key] = issue
SetIssue(issues, key, issue) == (key :> issue) @@ issues

\* The price rule of the richer variant's addAlbum.
PriceOutOfRange(price) == price < 0 \/ price >= PriceLimit

\* Mutant: validation that stops at the first violated rule.
validate_ShortCircuit(album) ==
    IF album.ID = <<>> THEN SetIssue(<<>>, "id", Required)
    ELSE IF album.Title = "" THEN SetIssue(<<>>, "title", Required)
    ELSE IF album.Artist = "" THEN SetIssue(<<>>, "artist", Required)
    ELSE IF PriceOutOfRange(album.Price) THEN SetIssue(<<>>, "price", OutOfRange)
    ELSE <<>>

\* The validation block of the richer addAlbum: every rule is tested, and
\* each violated one adds its key to the issues map.
validate(album) ==
    LET i0 == <<>>
        i1 == IF album.ID = <<>> THEN SetIssue(i0, "id", Required) ELSE i0
        i2 == IF album.Title = "" THEN SetIssue(i1, "title", Required) ELSE i1
        i3 == IF album.Artist = "" THEN SetIssue(i2, "artist", Required) ELSE i2
        i4 == IF PriceOutOfRange(album.Price)
              THEN SetIssue(i3, "price", OutOfRange) ELSE i3
    IN  i4

\* The validation block of the leaner addAlbum: the list of missing fields.
validate2(album) ==
    LET m0 == <<>>
        m1 == IF album.ID = <<>> THEN Append(m0, "id") ELSE m0
        m2 == IF album.Title = "" THEN Append(m1, "title") ELSE m1
        m3 == IF album.Artist = "" THEN Append(m2, "artist") ELSE m2
    IN  m3

\* What a handler decides before it touches the store: either the response
\* it writes at once (call = "none"), or the store call it goes on to make.
Answer(r) == [call |-> "none", resp |-> r]
Call(name) == [call |-> name, resp |-> NoResp]

\* Mutant: addAlbum that goes on to the store whatever validation found.
addAlbumEntry_NoReturn(v, r) ==
    IF r.body.kind = "obj" THEN Call("AddAlbum")
    ELSE Answer(jsonError("", StatusBadRequest, ErrorMalformedJSON, NilData))

\* Mutant: readJSON that drops the error of io.ReadAll and parses the bytes
\* it got (none), so that a read failure is answered as malformed JSON.
addAlbumEntry_ReadErrDropped(v, r) ==
    IF r.body.kind # "obj"
    THEN Answer(IF v = 1
                THEN jsonError("", StatusBadRequest, ErrorMalformedJSON,
                               [kind |-> "debug",
                                message |-> UnmarshalError(
                                    IF r.body.kind = "bad" THEN r.body
                                    ELSE TruncatedBody)])
                ELSE httpError("error unmarshaling JSON: ",
                               <<UnmarshalError(IF r.body.kind = "bad" THEN r.body
                                                ELSE TruncatedBody)>>,
                               StatusBadRequest))
    ELSE LET album == Unmarshal(r.body) IN
         IF v = 1
         THEN IF Cardinality(DOMAIN validate(album)) > 0
              THEN Answer(jsonError("", StatusBadRequest, ErrorValidation,
                                    [kind |-> "issues", issues |-> validate(album)]))
              ELSE Call("AddAlbum")
         ELSE IF Len(validate2(album)) > 0
              THEN Answer(httpError("missing fields: ", validate2(album),
                                    StatusBadRequest))
              ELSE Call("AddAlbum")

\* Server.addAlbum up to the call of s.db.AddAlbum, with Server.readJSON.
addAlbumEntry(v, r) ==
    IF r.body.kind \notin {"bad", "obj"}
    THEN \* io.ReadAll failed
         Answer(IF v = 1
                THEN jsonError("", StatusInternalServerError, ErrorInternal, NilData)
                ELSE httpError("error reading body", <<>>, StatusInternalServerError))
    ELSE IF r.body.kind = "bad"
    THEN \* json.Unmarshal failed
         Answer(IF v = 1
                THEN jsonError("", StatusBadRequest, ErrorMalformedJSON,
                               [kind |-> "debug", message |-> UnmarshalError(r.body)])
                ELSE httpError("error unmarshaling JSON: ", <<UnmarshalError(r.body)>>,
                               StatusBadRequest))
    ELSE LET album == Unmarshal(r.body) IN
         IF v = 1
         THEN IF Cardinality(DOMAIN validate(album)) > 0
              THEN Answer(jsonError("", StatusBadRequest, ErrorValidation,
                                    [kind |-> "issues", issues |-> validate(album)]))
              ELSE Call("AddAlbum")
         ELSE IF Len(validate2(album)) > 0
              THEN Answer(httpError("missing fields: ", validate2(album),
                                    StatusBadRequest))
              ELSE Call("AddAlbum")

\* The lines Server.ServeHTTP and the handler it calls write to the log up
\* to the handler's store call: the request line, and in the richer variant
\* readJSON's line when reading the body fails.
EntryLog(v, r) ==
    <<"%s %s">> \o
    (IF v = 1 /\ r.path = AlbumsPath /\ r.method = "POST"
        /\ r.body.kind \notin {"bad", "obj"}
     THEN <<"error reading JSON body: %v">> ELSE <<>>)

\* Server.ServeHTTP: the switch on path and method.
Dispatch(v, r) ==
    IF r.path = AlbumsPath
    THEN IF r.method = "GET" THEN Call("GetAlbums")
         ELSE IF r.method = "POST" THEN addAlbumEntry(v, r)
         ELSE Answer(IF v = 1
                     THEN jsonError("GET, POST", StatusMethodNotAllowed,
                                    ErrorMethodNotAllowed, NilData)
                     ELSE httpError("method not allowed", <<>>, StatusMethodNotAllowed))
    ELSE IF match(r.path)
    THEN IF r.method = "GET" THEN Call("GetAlbumByID")
         ELSE Answer(IF v = 1
                     THEN jsonError("GET", StatusMethodNotAllowed,
                                    ErrorMethodNotAllowed, NilData)
                     ELSE httpError("method not allowed", <<>>, StatusMethodNotAllowed))
    ELSE Answer(IF v = 1
                THEN jsonError("", StatusNotFound, ErrorNotFound, NilData)
                ELSE httpError("404 page not found", <<>>, StatusNotFound))

\* ------------------------------------------------------------ store
\* The comparison GetAlbums hands to sort.Slice.
less(a, b) == StrLess(a.ID, b.ID)

Front(s) == SubSeq(s, 1, Len(s) - 1)
Last(s) == s[Len(s)]

RECURSIVE InsertSorted(_, _)
\* One pass of insertion sort: a moves left while it is less than its
\* predecessor.
InsertSorted(s, a) ==
    IF s = <<>> THEN <<a>>
    ELSE IF less(a, Last(s)) THEN Append(InsertSorted(Front(s), a), Last(s))
    ELSE Append(s, a)

\* Mutant: the slice is returned in the order the map was ranged over.
SortSlice_Skipped(s) == s

RECURSIVE SortSlice(_)
\* sort.Slice(albums, less): insertion sort on a short slice.
SortSlice(s) ==
    IF s = <<>> THEN <<>> ELSE InsertSorted(SortSlice(Front(s)), Last(s))

\* The orders in which `for _, album := range d.albums' may visit the map.
RangeOrders(m) ==
    {o \in [1..Cardinality(DOMAIN m) -> DOMAIN m] :
        \A i, j \in DOMAIN o : i # j => o[i] # o[j]}

\* The body of GetAlbums for one iteration order: copy, then sort by ID.
CopyAndSort(m, order) == SortSlice([i \in DOMAIN order |-> m[order[i]]])

\* Mutant: the existence test that never finds the key.
Exists_Never(m, id) == FALSE

\* `_, ok := d.albums[id]'
Exists(m, id) == id \in DOMAIN m

\* Mutant: the insert that forgets to store the album.
Put_Forgotten(m, album) == m

\* `d.albums[album.ID] = album'
Put(m, album) == (album.ID :> album) @@ m

\* Mutant: Lock() that never waits for the holders of the lock.
CanLock_NoExclusion(l) == TRUE

\* Whether Lock() on the store's lock can return: no writer and no reader
\* holds it.
CanLock(l) == ~l.w /\ l.r = 0

\* Whether Lock() on the richer variant's RWMutex, called while readers hold
\* the lock, can take the writers' mutex and announce itself: from then on
\* RLock() waits, so that the readers inside drain and the writer gets in.
CanAnnounce(v, l) == v = 1 /\ ~l.w /\ ~l.p /\ l.r > 0

\* Mutant: RLock() that does not wait for the writer that holds the lock.
CanRLock_IgnoresWriter(l) == TRUE

\* Whether RLock() on the store's RWMutex can return: no writer holds it
\* or waits for it.
CanRLock(l) == ~l.w /\ ~l.p

\* The lock a reading operation takes: a shared lock on the richer
\* variant's RWMutex, the one exclusive lock of the leaner variant's Mutex.
ReadLock(v, l) ==
    IF v = 1 THEN [l EXCEPT !.r = @ + 1] ELSE [l EXCEPT !.w = TRUE]
CanReadLock(v, l) == IF v = 1 THEN CanRLock(l) ELSE CanLock(l)
\* Mutant: a reading operation that returns without releasing its lock.
ReadUnlock_Leaked(v, l) == l

ReadUnlock(v, l) ==
    IF v = 1 THEN [l EXCEPT !.r = @ - 1] ELSE [l EXCEPT !.w = FALSE]

\* The errors errorDatabase returns.
ErrGetAlbums == "GetAlbums error"
ErrGetAlbumByID == "GetAlbumByID error"
ErrAddAlbum == "AddAlbum error"

\* What a store call has returned to its handler.
NoRet == [err |-> "nil", album |-> ZeroAlbum, albums |-> <<>>]

\* ------------------------------------------------------------ state
VARIABLES
    variant,  \* 1: the richer program, 2: the leaner one
    db,       \* Server.db: "memory" (MemoryDatabase) or "error" (errorDatabase)
    albums,   \* MemoryDatabase.albums: ID -> Album
    lock,     \* MemoryDatabase.lock: w (a writer holds it), r (readers that
              \*   hold it), p (a writer has announced itself and waits for
              \*   the readers to leave)
    pc,       \* where each goroutine is
    req,      \* the request a goroutine serves (or served last)
    ret,      \* what the goroutine's store call returned
    resp,     \* the response a goroutine wrote to its request
    acked,    \* history: the albums for which a 201 has been written
    fresh,    \* history: the request is a create whose ID was not stored
              \*          when the request arrived
    expect,   \* history: the albums acked when the request arrived that
              \*          the request asks for
    logs,     \* the lines a goroutine has logged while serving its request
    written   \* history: how many responses a goroutine has written to
              \*          its request

vars == <<variant, db, albums, lock, pc, req, ret, resp, acked, fresh, expect,
          logs, written>>

store == <<albums, lock>>
history == <<acked, fresh, expect>>
trace == <<logs, written>>

\* The album a create request carries (var album in addAlbum).
AlbumOf(c) == Unmarshal(req[c].body)

\* The id a get-by-ID request carries.
IDOf(c) == matchID(req[c].path)

\* NewMemoryDatabase, NewServer: an empty map, an unlocked lock, and no
\* request in progress.  The server is built on a MemoryDatabase, or (the
\* richer variant, in TestDatabaseErrors) on an errorDatabase.
Init ==
    /\ variant \in {1, 2}
    /\ db \in IF variant = 1 THEN {"memory", "error"} ELSE {"memory"}
    /\ albums = <<>>
    /\ lock = [w |-> FALSE, r |-> 0, p |-> FALSE]
    /\ pc = [c \in Clients |-> "idle"]
    /\ req = [c \in Clients |-> Request("", <<>>, NoBody)]
    /\ ret = [c \in Clients |-> NoRet]
    /\ resp = [c \in Clients |-> NoResp]
    /\ acked = {}
    /\ fresh = [c \in Clients |-> FALSE]
    /\ expect = [c \in Clients |-> {}]
    /\ logs = [c \in Clients |-> <<>>]
    /\ written = [c \in Clients |-> 0]

\* The acked albums a request r asks for: all of them for GET /albums, the
\* one with the ID for GET /albums/{id}.
Asked(r) ==
    IF r.method # "GET" THEN {}
    ELSE IF r.path = AlbumsPath THEN acked
    ELSE IF Len(r.path) >= Len(AlbumsPrefix)
            /\ SubSeq(r.path, 1, Len(AlbumsPrefix)) = AlbumsPrefix
    THEN {e \in acked : e.ID = matchID(r.path)}
    ELSE {}

\* A request r arrives at goroutine c: Server.ServeHTTP and the handler it
\* calls, up to the handler's store call.
ServeHTTP(c, r) ==
    /\ pc[c] = "idle"
    /\ req' = [req EXCEPT ![c] = r]
    /\ LET d == Dispatch(variant, r) IN
         /\ pc' = [pc EXCEPT ![c] = IF d.call = "none" THEN "idle" ELSE d.call]
         /\ resp' = [resp EXCEPT ![c] = d.resp]
    /\ ret' = [ret EXCEPT ![c] = NoRet]
    /\ fresh' = [fresh EXCEPT ![c] =
                    /\ r.method = "POST" /\ r.path = AlbumsPath
                    /\ r.body.kind = "obj"
                    /\ Unmarshal(r.body).ID \notin DOMAIN albums]
    /\ expect' = [expect EXCEPT ![c] = Asked(r)]
    /\ logs' = [logs EXCEPT ![c] = EntryLog(variant, r)]
    /\ written' = [written EXCEPT ![c] =
                      IF Dispatch(variant, r).call = "none" THEN 1 ELSE 0]
    /\ UNCHANGED <<variant, db, store, acked>>

\* --- MemoryDatabase.GetAlbums
GetAlbumsLock(c) ==
    /\ pc[c] = "GetAlbums"
    /\ db = "memory"
    /\ CanReadLock(variant, lock)
    /\ lock' = ReadLock(variant, lock)
    /\ pc' = [pc EXCEPT ![c] = "GetAlbums:read"]
    /\ UNCHANGED <<variant, db, albums, req, ret, resp, history, trace>>

GetAlbumsRead(c) ==
    /\ pc[c] = "GetAlbums:read"
    /\ \E order \in RangeOrders(albums) :
         ret' = [ret EXCEPT ![c] =
                    [NoRet EXCEPT !.albums = CopyAndSort(albums, order)]]
    /\ pc' = [pc EXCEPT ![c] = "GetAlbums:unlock"]
    /\ UNCHANGED <<variant, db, store, req, resp, history, trace>>

GetAlbumsUnlock(c) ==
    /\ pc[c] = "GetAlbums:unlock"
    /\ lock' = ReadUnlock(variant, lock)
    /\ pc' = [pc EXCEPT ![c] = "getAlbums"]
    /\ UNCHANGED <<variant, db, albums, req, ret, resp, history, trace>>

\* Server.getAlbums after s.db.GetAlbums has returned.
getAlbumsResponse(v, rt) ==
    IF rt.err # "nil"
    THEN IF v = 1
         THEN jsonError("", StatusInternalServerError, ErrorDatabase, NilData)
         ELSE httpError("error fetching albums", <<>>, StatusInternalServerError)
    ELSE IF v = 1
         THEN writeJSON("", StatusOK,
                        [kind |-> "list", albums |-> MarshalAlbums(v, rt.albums)])
         ELSE writeJSON2(StatusOK, FALSE,
                         [kind |-> "list", albums |-> MarshalAlbums(v, rt.albums)])

\* What Server.getAlbums logs after s.db.GetAlbums has returned.
getAlbumsLog(v, rt) ==
    IF v = 1 /\ rt.err # "nil" THEN <<"error fetching albums: %v">> ELSE <<>>

getAlbums(c) ==
    /\ pc[c] = "getAlbums"
    /\ resp' = [resp EXCEPT ![c] = getAlbumsResponse(variant, ret[c])]
    /\ logs' = [logs EXCEPT ![c] = @ \o getAlbumsLog(variant, ret[c])]
    /\ written' = [written EXCEPT ![c] = @ + 1]
    /\ pc' = [pc EXCEPT ![c] = "idle"]
    /\ UNCHANGED <<variant, db, store, req, ret, history>>

\* --- MemoryDatabase.GetAlbumByID
GetAlbumByIDLock(c) ==
    /\ pc[c] = "GetAlbumByID"
    /\ db = "memory"
    /\ CanReadLock(variant, lock)
    /\ lock' = ReadLock(variant, lock)
    /\ pc' = [pc EXCEPT ![c] = "GetAlbumByID:read"]
    /\ UNCHANGED <<variant, db, albums, req, ret, resp, history, trace>>

\* Mutant: the lookup that returns the zero Album for a stored ID.
Lookup_ZeroAlbum(m, id) ==
    IF id \in DOMAIN m THEN NoRet ELSE [NoRet EXCEPT !.err = ErrDoesNotExist]

\* Mutant: the lookup that reports no error for an absent ID.
Lookup_NoError(m, id) ==
    IF id \in DOMAIN m THEN [NoRet EXCEPT !.album = m[id]] ELSE NoRet

\* `album, ok := d.albums[id]' and the return value it leads to.
Lookup(m, id) ==
    IF Exists(m, id) THEN [NoRet EXCEPT !.album = m[id]]
    ELSE [NoRet EXCEPT !.err = ErrDoesNotExist]

GetAlbumByIDRead(c) ==
    /\ pc[c] = "GetAlbumByID:read"
    /\ ret' = [ret EXCEPT ![c] = Lookup(albums, IDOf(c))]
    /\ pc' = [pc EXCEPT ![c] = "GetAlbumByID:unlock"]
    /\ UNCHANGED <<variant, db, store, req, resp, history, trace>>

GetAlbumByIDUnlock(c) ==
    /\ pc[c] = "GetAlbumByID:unlock"
    /\ lock' = ReadUnlock(variant, lock)
    /\ pc' = [pc EXCEPT ![c] = "getAlbumByID"]
    /\ UNCHANGED <<variant, db, albums, req, ret, resp, history, trace>>

\* Server.getAlbumByID after s.db.GetAlbumByID has returned.
getAlbumByIDResponse(v, rt) ==
    IF rt.err = ErrDoesNotExist
    THEN IF v = 1 THEN jsonError("", StatusNotFound, ErrorNotFound, NilData)
         ELSE httpError("404 page not found", <<>>, StatusNotFound)
    ELSE IF rt.err # "nil"
    THEN IF v = 1
         THEN jsonError("", StatusInternalServerError, ErrorDatabase, NilData)
         ELSE httpError("error fetching album", <<>>, StatusInternalServerError)
    ELSE IF v = 1
         THEN writeJSON("", StatusOK, MarshalAlbum(v, rt.album))
         ELSE writeJSON2(StatusOK, FALSE, MarshalAlbum(v, rt.album))

\* What Server.getAlbumByID logs after s.db.GetAlbumByID has returned.
getAlbumByIDLog(v, rt) ==
    IF v = 1 /\ rt.err # ErrDoesNotExist /\ rt.err # "nil"
    THEN <<"error fetching album ID %q: %v">> ELSE <<>>

getAlbumByID(c) ==
    /\ pc[c] = "getAlbumByID"
    /\ resp' = [resp EXCEPT ![c] = getAlbumByIDResponse(variant, ret[c])]
    /\ logs' = [logs EXCEPT ![c] = @ \o getAlbumByIDLog(variant, ret[c])]
    /\ written' = [written EXCEPT ![c] = @ + 1]
    /\ pc' = [pc EXCEPT ![c] = "idle"]
    /\ UNCHANGED <<variant, db, store, req, ret, history>>

\* --- MemoryDatabase.AddAlbum
\* d.lock.Lock(): it returns at once when the lock is free; on the RWMutex,
\* when only readers hold the lock, it announces the writer and returns
\* (from "AddAlbum:wait") when the last reader has left.
AddAlbumLock(c) ==
    /\ pc[c] \in {"AddAlbum", "AddAlbum:wait"}
    /\ db = "memory"
    /\ IF pc[c] = "AddAlbum:wait"
       THEN /\ CanLock(lock)
            /\ lock' = [lock EXCEPT !.w = TRUE, !.p = FALSE]
            /\ pc' = [pc EXCEPT ![c] = "AddAlbum:check"]
       ELSE IF CanLock(lock) /\ ~lock.p
       THEN /\ lock' = [lock EXCEPT !.w = TRUE]
            /\ pc' = [pc EXCEPT ![c] = "AddAlbum:check"]
       ELSE /\ CanAnnounce(variant, lock)
            /\ lock' = [lock EXCEPT !.p = TRUE]
            /\ pc' = [pc EXCEPT ![c] = "AddAlbum:wait"]
    /\ UNCHANGED <<variant, db, albums, req, ret, resp, history, trace>>

\* `if _, ok := d.albums[album.ID]; ok { return ErrAlreadyExists }'
AddAlbumCheck(c) ==
    /\ pc[c] = "AddAlbum:check"
    /\ IF Exists(albums, AlbumOf(c).ID)
       THEN /\ ret' = [ret EXCEPT ![c] = [NoRet EXCEPT !.err = ErrAlreadyExists]]
            /\ pc' = [pc EXCEPT ![c] = "AddAlbum:unlock"]
       ELSE /\ ret' = ret
            /\ pc' = [pc EXCEPT ![c] = "AddAlbum:write"]
    /\ UNCHANGED <<variant, db, store, req, resp, history, trace>>

\* `d.albums[album.ID] = album; return nil'
AddAlbumWrite(c) ==
    /\ pc[c] = "AddAlbum:write"
    /\ albums' = Put(albums, AlbumOf(c))
    /\ ret' = [ret EXCEPT ![c] = NoRet]
    /\ pc' = [pc EXCEPT ![c] = "AddAlbum:unlock"]
    /\ UNCHANGED <<variant, db, lock, req, resp, history, trace>>

AddAlbumUnlock(c) ==
    /\ pc[c] = "AddAlbum:unlock"
    /\ lock' = [lock EXCEPT !.w = FALSE]
    /\ pc' = [pc EXCEPT ![c] = "addAlbum"]
    /\ UNCHANGED <<variant, db, albums, req, ret, resp, history, trace>>

\* Mutant: addAlbum that tests err != nil before it tests for
\* ErrAlreadyExists, so that every failure is answered 500.
addAlbumResponse_ErrFirst(v, rt, album) ==
    IF rt.err # "nil"
    THEN IF v = 1
         THEN jsonError("", StatusInternalServerError, ErrorDatabase, NilData)
         ELSE httpError("error adding album", <<>>, StatusInternalServerError)
    ELSE IF v = 1
         THEN writeJSON("", StatusCreated, MarshalAlbum(v, album))
         ELSE writeJSON2(StatusCreated, TRUE, MarshalAlbum(v, album))

\* Server.addAlbum after s.db.AddAlbum has returned.
addAlbumResponse(v, rt, album) ==
    IF rt.err = ErrAlreadyExists
    THEN IF v = 1
         THEN jsonError("", StatusConflict, ErrorAlreadyExists, NilData)
         ELSE httpError("album already exists", album.ID, StatusConflict)
    ELSE IF rt.err # "nil"
    THEN IF v = 1
         THEN jsonError("", StatusInternalServerError, ErrorDatabase, NilData)
         ELSE httpError("error adding album", <<>>, StatusInternalServerError)
    ELSE IF v = 1
         THEN writeJSON("", StatusCreated, MarshalAlbum(v, album))
         ELSE writeJSON2(StatusCreated, TRUE, MarshalAlbum(v, album))

\* Mutant: addAlbum that answers a failed store call without logging it.
addAlbumLog_Silent(v, rt) == <<>>

\* What Server.addAlbum logs after s.db.AddAlbum has returned.
addAlbumLog(v, rt) ==
    IF v = 1 /\ rt.err # ErrAlreadyExists /\ rt.err # "nil"
    THEN <<"error adding album ID %q: %v">> ELSE <<>>

addAlbum(c) ==
    /\ pc[c] = "addAlbum"
    /\ resp' = [resp EXCEPT ![c] = addAlbumResponse(variant, ret[c], AlbumOf(c))]
    /\ logs' = [logs EXCEPT ![c] = @ \o addAlbumLog(variant, ret[c])]
    /\ written' = [written EXCEPT ![c] = @ + 1]
    /\ acked' = IF resp'[c].status = StatusCreated
                THEN acked \cup {AlbumOf(c)} ELSE acked
    /\ pc' = [pc EXCEPT ![c] = "idle"]
    /\ UNCHANGED <<variant, db, store, req, ret, fresh, expect>>

\* --- errorDatabase: every call returns its error, and touches no state.
ErrorGetAlbums(c) ==
    /\ pc[c] = "GetAlbums"
    /\ db = "error"
    /\ ret' = [ret EXCEPT ![c] = [NoRet EXCEPT !.err = ErrGetAlbums]]
    /\ pc' = [pc EXCEPT ![c] = "getAlbums"]
    /\ UNCHANGED <<variant, db, store, req, resp, history, trace>>

ErrorGetAlbumByID(c) ==
    /\ pc[c] = "GetAlbumByID"
    /\ db = "error"
    /\ ret' = [ret EXCEPT ![c] = [NoRet EXCEPT !.err = ErrGetAlbumByID]]
    /\ pc' = [pc EXCEPT ![c] = "getAlbumByID"]
    /\ UNCHANGED <<variant, db, store, req, resp, history, trace>>

ErrorAddAlbum(c) ==
    /\ pc[c] = "AddAlbum"
    /\ db = "error"
    /\ ret' = [ret EXCEPT ![c] = [NoRet EXCEPT !.err = ErrAddAlbum]]
    /\ pc' = [pc EXCEPT ![c] = "addAlbum"]
    /\ UNCHANGED <<variant, db, store, req, resp, history, trace>>

\* A goroutine's steps inside the store and back in its handler.
Step(c) ==
    \/ ErrorGetAlbums(c) \/ ErrorGetAlbumByID(c) \/ ErrorAddAlbum(c)
    \/ GetAlbumsLock(c) \/ GetAlbumsRead(c) \/ GetAlbumsUnlock(c) \/ getAlbums(c)
    \/ GetAlbumByIDLock(c) \/ GetAlbumByIDRead(c) \/ GetAlbumByIDUnlock(c)
    \/ getAlbumByID(c)
    \/ AddAlbumLock(c) \/ AddAlbumCheck(c) \/ AddAlbumWrite(c)
    \/ AddAlbumUnlock(c) \/ addAlbum(c)

\* ------------------------------------------------------------ inputs
IdA == <<"a">>
IdB == <<"b">>
\* An ID that holds a slash.
IdSlash == <<"a", "/", "b">>

Get(path) == Request("GET", path, NoBody)
Post(body) == Request("POST", AlbumsPath, body)
FullObject(id, title, artist, price) ==
    WireObject(AlbumFields,
               [ID |-> id, Title |-> title, Artist |-> artist, Price |-> price])

\* The requests of the concurrent specification: every client lists, gets
\* and creates under the one ID a, with two different albums to create.
ConcRequests ==
    {Get(AlbumsPath), Get(AlbumsPrefix \o IdA)}
    \cup {Post(FullObject(IdA, "T", "A", price)) : price \in {0, 795}}

\* The requests of the one-client specification: every method on every
\* kind of path, and create bodies that fail to read, fail to parse, or
\* hold any subset of the keys with valid and invalid values.
WidePaths ==
    {AlbumsPath, AlbumsPrefix, <<"/">>, AlbumsPath \o <<"x">>,
     AlbumsPrefix \o IdA \o <<"/">>}
    \cup {AlbumsPrefix \o id : id \in {IdA, IdB, IdSlash}}
\* Each key is absent or present, the price with one of a few values; and
\* complete albums under two more IDs and with empty strings.
WideObjects ==
    {WireObject(has, [ID |-> IdA, Title |-> "T", Artist |-> "A", Price |-> price]) :
        has \in SUBSET AlbumFields, price \in {-1, 795, PriceLimit}}
    \cup {FullObject(id, "T", "A", price) :
             id \in {IdB, IdSlash}, price \in {-1, 795}}
    \cup {FullObject(<<>>, "T", "", 0), FullObject(IdA, "", "A", 0)}
WideRequests ==
    {Request(m, p, NoBody) : m \in {"GET", "PUT"}, p \in WidePaths}
    \cup {Request("POST", p, NoBody) : p \in WidePaths \ {AlbumsPath}}
    \cup {Post(b) : b \in {ReadErrBody, BadBody, TruncatedBody} \cup WideObjects}

\* The requests of client c when every client creates under an ID of its
\* own (TestConcurrentRequests): it lists, creates its album, and gets its
\* own album and the next client's.
Letters == <<"a", "b", "c", "x">>
OwnID(c) == <<Letters[c]>>
NextClient(c) == (c % NumClients) + 1
OwnRequests(c) ==
    {Get(AlbumsPath), Get(AlbumsPrefix \o OwnID(c)),
     Get(AlbumsPrefix \o OwnID(NextClient(c))),
     Post(FullObject(OwnID(c), "T", "A", 795))}

\* ------------------------------------------------------------ specifications
\* Clients send any of ConcRequests, concurrently.
Next ==
    \E c \in Clients :
        \/ \E r \in ConcRequests : ServeHTTP(c, r)
        \/ Step(c)

Spec == Init /\ [][Next]_vars

\* The concurrent specification under fair scheduling: the Go scheduler runs
\* every goroutine that can run, and a goroutine that waits in Lock or RLock
\* gets the lock once it has been free often enough (sync.Mutex hands the
\* lock to a starving waiter, a waiting writer of sync.RWMutex holds back
\* new readers).  Nothing obliges a client to send a request.
Fairness == \A c \in Clients : SF_vars(Step(c))

\* The requests of the fair specification: a list, a get-by-ID and a create,
\* all of the one ID a.
FairRequests ==
    {Get(AlbumsPath), Get(AlbumsPrefix \o IdA), Post(FullObject(IdA, "T", "A", 795))}

NextFair ==
    \E c \in Clients :
        \/ \E r \in FairRequests : ServeHTTP(c, r)
        \/ Step(c)

SpecFair == Init /\ [][NextFair]_vars /\ Fairness

\* One client sends any of WideRequests, one after the other.
NextWide ==
    \/ \E r \in WideRequests : ServeHTTP(1, r)
    \/ Step(1)

SpecWide == Init /\ [][NextWide]_vars

\* Every client creates under its own ID, concurrently.
NextDistinct ==
    \E c \in Clients :
        \/ \E r \in OwnRequests(c) : ServeHTTP(c, r)
        \/ Step(c)

SpecDistinct == Init /\ [][NextDistinct]_vars

\* ------------------------------------------------------------ claims
\* A goroutine whose create request has come back from AddAlbum.
AddReturned(c) ==
    /\ pc[c] \in {"addAlbum", "idle"}
    /\ Dispatch(variant, req[c]).call = "AddAlbum"

\* A create of ID id by a client other than c and d has succeeded: it has
\* been acknowledged, or it has written and not yet been answered.
ThirdCreateWon(c, d, id) ==
    \/ \E e \in acked : e.ID = id
    \/ \E o \in Clients \ {c, d} :
          /\ pc[o] \in {"AddAlbum:unlock", "addAlbum"}
          /\ AlbumOf(o).ID = id
          /\ ret[o].err = "nil"

\* C1 (MemoryDatabase): of two creates of the same ID that both arrived while
\* the ID was not stored, exactly one returns nil (and is answered 201) and the other
\* returns ErrAlreadyExists (and is answered 409); two creates of one ID
\* never both succeed, and both fail only when a third client's create of
\* that ID is the one that succeeded.
C1_ExactlyOneCreateWins ==
    \A c, d \in Clients :
        (db = "memory" /\ c # d /\ AddReturned(c) /\ AddReturned(d)
              /\ AlbumOf(c).ID = AlbumOf(d).ID)
        => /\ ~(ret[c].err = "nil" /\ ret[d].err = "nil")
           /\ (fresh[c] /\ fresh[d] /\ ~ThirdCreateWon(c, d, AlbumOf(c).ID))
                => /\ {ret[c].err, ret[d].err} = {"nil", ErrAlreadyExists}
                   /\ (pc[c] = "idle" /\ pc[d] = "idle")
                        => {resp[c].status, resp[d].status}
                             = {StatusCreated, StatusConflict}

\* Two creates of one ID, both arrived before the ID was stored, have both
\* been answered.
C1_Witness ==
    \E c, d \in Clients :
        /\ c # d /\ AddReturned(c) /\ AddReturned(d)
        /\ AlbumOf(c).ID = AlbumOf(d).ID
        /\ fresh[c] /\ fresh[d]
        /\ pc[c] = "idle" /\ pc[d] = "idle"
        /\ resp[c].status = StatusCreated /\ resp[d].status = StatusConflict

\* A goroutine whose get-by-ID request has come back from GetAlbumByID.
GetReturned(c) ==
    /\ pc[c] \in {"getAlbumByID", "idle"}
    /\ Dispatch(variant, req[c]).call = "GetAlbumByID"

\* A goroutine whose list request has come back from GetAlbums.
ListReturned(c) ==
    /\ pc[c] \in {"getAlbums", "idle"}
    /\ Dispatch(variant, req[c]).call = "GetAlbums"

AllIdle == \A c \in Clients : pc[c] = "idle"

\* C2 (MemoryDatabase): when every client creates under an ID of its own,
\* every create of an ID that was not stored when it arrived succeeds (nil,
\* 201); the store
\* holds every acknowledged ID, and when no request is in progress it holds
\* exactly the acknowledged albums, one per ID; a get-by-ID of an ID that
\* was acknowledged when the get arrived returns its album.
C2_DistinctCreatesAllSucceed ==
    /\ \A c \in Clients :
         (db = "memory" /\ AddReturned(c) /\ fresh[c])
         => /\ ret[c].err = "nil"
            /\ pc[c] = "idle" => resp[c].status = StatusCreated
    /\ {e.ID : e \in acked} \subseteq DOMAIN albums
    /\ AllIdle => /\ DOMAIN albums = {e.ID : e \in acked}
                  /\ Cardinality(DOMAIN albums) = Cardinality(acked)
    /\ \A c \in Clients :
         (GetReturned(c) /\ expect[c] # {})
         => /\ ret[c].err = "nil" /\ ret[c].album \in expect[c]
            /\ pc[c] = "idle" => resp[c].status = StatusOK

\* Every client has created its album, and a get of an acknowledged ID has
\* been answered.
C2_Witness ==
    /\ AllIdle
    /\ Cardinality(DOMAIN albums) = NumClients
    /\ Cardinality(acked) = NumClients
    /\ \E c \in Clients :
         /\ GetReturned(c) /\ expect[c] # {}
         /\ IDOf(c) # OwnID(c)
         /\ resp[c].status = StatusOK

\* C3: no step removes or changes a stored album, and a create that finds
\* its ID stored returns ErrAlreadyExists without writing; so the album
\* under an ID stays the one of the first successful insert.
C3_NoOverwrite ==
    [][/\ \A id \in DOMAIN albums :
            id \in DOMAIN albums' /\ albums'[id] = albums[id]
       /\ \A c \in Clients :
            (pc[c] = "AddAlbum:check" /\ pc'[c] # "AddAlbum:check"
                /\ AlbumOf(c).ID \in DOMAIN albums)
            => /\ ret'[c].err = ErrAlreadyExists
               /\ pc'[c] = "AddAlbum:unlock"
               /\ albums' = albums
       /\ \A c \in Clients :
            (pc[c] = "addAlbum" /\ pc'[c] = "idle"
                /\ ret[c].err = ErrAlreadyExists)
            => /\ resp'[c].status = StatusConflict
               /\ albums' = albums]_vars

\* A create of a stored ID with a different album has been answered 409,
\* and the first album is still the one stored.
C3_Witness ==
    \E c \in Clients :
        /\ AddReturned(c) /\ pc[c] = "idle"
        /\ ret[c].err = ErrAlreadyExists
        /\ resp[c].status = StatusConflict
        /\ AlbumOf(c).ID \in DOMAIN albums
        /\ albums[AlbumOf(c).ID] # AlbumOf(c)

\* C4: a get-by-ID of an ID whose insert had succeeded (and been
\* acknowledged) when the get arrived returns, without error, an album equal
\* to the inserted one in ID, title, artist and price.
C4_InsertThenGet ==
    \A c \in Clients :
        GetReturned(c)
        => \A e \in expect[c] :
             /\ ret[c].err = "nil"
             /\ ret[c].album.ID = e.ID
             /\ ret[c].album.Title = e.Title
             /\ ret[c].album.Artist = e.Artist
             /\ ret[c].album.Price = e.Price

\* A get has returned an album that another client inserted, with a price
\* that is not the zero value.
C4_Witness ==
    \E c \in Clients :
        /\ GetReturned(c) /\ expect[c] # {}
        /\ ret[c].album.Price # 0
        /\ ret[c].album.Title # ""
        /\ \E d \in Clients \ {c} : AddReturned(d) /\ AlbumOf(d) = ret[c].album

\* The elements of a sequence.
Elems(s) == {s[i] : i \in DOMAIN s}

\* C5: the slice GetAlbums returns holds exactly the stored albums, each
\* once, in strictly ascending order of ID, whatever the order in which
\* they were inserted and in which the map is ranged over; GET /albums on
\* a MemoryDatabase answers 200 with that slice in that order.
C5_ListSortedByID ==
    [][/\ \A c \in Clients :
            (pc[c] = "GetAlbums:read" /\ pc'[c] = "GetAlbums:unlock")
            => LET l == ret'[c].albums IN
               /\ ret'[c].err = "nil"
               /\ Len(l) = Cardinality(DOMAIN albums)
               /\ Elems(l) = {albums[id] : id \in DOMAIN albums}
               /\ \A i \in 1..(Len(l) - 1) :
                     /\ l[i].ID # l[i + 1].ID
                     /\ StrLess(l[i].ID, l[i + 1].ID)
       /\ \A c \in Clients :
            (db = "memory" /\ pc[c] = "getAlbums" /\ pc'[c] = "idle")
            => /\ resp'[c].status = StatusOK
               /\ resp'[c].body.kind = "list"
               /\ Len(resp'[c].body.albums) = Len(ret[c].albums)
               /\ \A i \in DOMAIN ret[c].albums :
                     Unmarshal(resp'[c].body.albums[i]) = ret[c].albums[i]]_vars

\* A list of three albums has been returned and answered: a, then a/b
\* (of which a is a prefix), then b.
C5_Witness ==
    \E c \in Clients :
        /\ ListReturned(c) /\ pc[c] = "idle"
        /\ Len(ret[c].albums) = 3
        /\ ret[c].albums[1].ID = IdA
        /\ ret[c].albums[2].ID = IdSlash
        /\ ret[c].albums[3].ID = IdB
        /\ resp[c].status = StatusOK

\* C6: GetAlbumByID returns ErrDoesNotExist exactly when the ID is not
\* stored, and otherwise nil with the stored album (never nil with the zero
\* Album for an absent ID); the handler answers ErrDoesNotExist with 404
\* (error kind not-found in the richer variant) and nil with 200.
C6_NotFoundIffAbsent ==
    [][/\ \A c \in Clients :
            (pc[c] = "GetAlbumByID:read" /\ pc'[c] = "GetAlbumByID:unlock")
            => /\ (ret'[c].err = ErrDoesNotExist) <=> (IDOf(c) \notin DOMAIN albums)
               /\ ret'[c].err \in {"nil", ErrDoesNotExist}
               /\ IDOf(c) \in DOMAIN albums => ret'[c].album = albums[IDOf(c)]
       /\ \A c \in Clients :
            (pc[c] = "getAlbumByID" /\ pc'[c] = "idle")
            => /\ (ret[c].err = ErrDoesNotExist) <=> (resp'[c].status = StatusNotFound)
               /\ (ret[c].err = "nil") <=> (resp'[c].status = StatusOK)
               /\ (variant = 1 /\ ret[c].err = ErrDoesNotExist)
                    => /\ resp'[c].body.kind = "error"
                       /\ resp'[c].body.error = ErrorNotFound]_vars

\* A get of an ID that is not stored, while another ID is, has been
\* answered 404.
C6_Witness ==
    \E c \in Clients :
        /\ GetReturned(c) /\ pc[c] = "idle"
        /\ IDOf(c) \notin DOMAIN albums
        /\ DOMAIN albums # {}
        /\ ret[c].err = ErrDoesNotExist
        /\ resp[c].status = StatusNotFound

\* Whether response r of variant v is a 200 whose body decodes to album e.
AnswersAlbum(r, e) ==
    /\ r.status = StatusOK
    /\ r.body.kind = "obj"
    /\ Unmarshal(r.body) = e

\* Whether response r is a 200 whose list holds an album that decodes to e.
AnswersListWith(r, e) ==
    /\ r.status = StatusOK
    /\ r.body.kind = "list"
    /\ \E i \in DOMAIN r.body.albums : Unmarshal(r.body.albums[i]) = e

\* C7: a 201 echoes the created album, and every GET that arrives after the
\* 201 for album e was written is answered 200 with e when it is
\* GET /albums/{e.id}, and 200 with a list that holds e when it is
\* GET /albums.
C7_CreatedThenVisible ==
    \A c \in Clients :
        /\ (pc[c] = "idle" /\ resp[c].status = StatusCreated)
           => /\ resp[c].body.kind = "obj"
              /\ Unmarshal(resp[c].body) = AlbumOf(c)
        /\ (pc[c] = "idle" /\ req[c].method = "GET")
           => \A e \in expect[c] :
                IF req[c].path = AlbumsPath
                THEN AnswersListWith(resp[c], e)
                ELSE AnswersAlbum(resp[c], e)

\* C7, for the acknowledged albums whose ID holds no slash: the statement
\* of C7 holds of them.
C7_VisibleWhenIDHasNoSlash ==
    \A c \in Clients :
        /\ (pc[c] = "idle" /\ resp[c].status = StatusCreated)
           => /\ resp[c].body.kind = "obj"
              /\ Unmarshal(resp[c].body) = AlbumOf(c)
        /\ (pc[c] = "idle" /\ req[c].method = "GET")
           => \A e \in expect[c] :
                (\A i \in DOMAIN e.ID : e.ID[i] # "/")
                => IF req[c].path = AlbumsPath
                   THEN AnswersListWith(resp[c], e)
                   ELSE AnswersAlbum(resp[c], e)

\* Whether p is /albums/{id} for an id of one or more characters, none of
\* them a slash.
IsItemPath(p) ==
    \E n \in 1..Len(p) :
        /\ p = AlbumsPrefix \o SubSeq(p, Len(p) - n + 1, Len(p))
        /\ \A i \in (Len(p) - n + 1)..Len(p) : p[i] # "/"

\* Whether response r is the richer variant's 405 with the Allow header.
IsMethodNotAllowed(r, allow) ==
    /\ r.status = StatusMethodNotAllowed
    /\ r.allow = allow
    /\ r.body.kind = "error"
    /\ r.body.error = ErrorMethodNotAllowed

\* What the dispatch table asks for request r: where the goroutine is
\* after routing (p) and what it has answered (rs).
FollowsTable(r, p, rs) ==
    IF r.path = AlbumsPath
    THEN IF r.method = "GET" THEN p = "GetAlbums"
         ELSE IF r.method = "POST"
         THEN \/ p = "AddAlbum"
              \/ p = "idle" /\ rs.status \in {StatusBadRequest, StatusInternalServerError}
         ELSE p = "idle" /\ IsMethodNotAllowed(rs, "GET, POST")
    ELSE IF IsItemPath(r.path)
    THEN IF r.method = "GET" THEN p = "GetAlbumByID"
         ELSE p = "idle" /\ IsMethodNotAllowed(rs, "GET")
    ELSE /\ p = "idle"
         /\ rs.status = StatusNotFound
         /\ rs.body.kind = "error"
         /\ rs.body.error = ErrorNotFound

\* C8 (richer variant): every step in which a request arrives leaves the
\* goroutine where the dispatch table says: in the list, create or
\* get-by-ID handler (the get with the path's last segment as the id), or
\* answered 405 with the table's Allow header, or answered 404.
C8_DispatchTable ==
    [][\A c \in Clients :
          (variant = 1 /\ pc[c] = "idle"
              /\ <<req[c], pc[c], resp[c]>>' # <<req[c], pc[c], resp[c]>>)
          => /\ FollowsTable(req'[c], pc'[c], resp'[c])
             /\ pc'[c] = "GetAlbumByID"
                  => req'[c].path = AlbumsPrefix \o matchID(req'[c].path)]_vars

\* PUT /albums/a has been answered 405 with Allow: GET.
C8_Witness ==
    \E c \in Clients :
        /\ variant = 1 /\ pc[c] = "idle"
        /\ req[c].method = "PUT" /\ req[c].path = AlbumsPrefix \o IdA
        /\ IsMethodNotAllowed(resp[c], "GET")

\* The keys of album a that break a rule of the data model: id, title and
\* artist non-empty, price within [0, PriceLimit).
ViolatedFields(a) ==
    {f \in AlbumFields :
        \/ f = "id" /\ a.ID = <<>>
        \/ f = "title" /\ a.Title = ""
        \/ f = "artist" /\ a.Artist = ""
        \/ f = "price" /\ ~(0 <= a.Price /\ a.Price < PriceLimit)}

\* Whether response r is the richer variant's 400 validation answer that
\* lists exactly the keys in `fields', each with its kind of issue.
IsValidationError(r, fields) ==
    /\ r.status = StatusBadRequest
    /\ r.body.kind = "error"
    /\ r.body.status = StatusBadRequest
    /\ r.body.error = ErrorValidation
    /\ r.body.hasData
    /\ r.body.data.kind = "issues"
    /\ DOMAIN r.body.data.issues = fields
    /\ \A f \in fields :
          r.body.data.issues[f].error =
              IF f = "price" THEN "out-of-range" ELSE "required"

\* A create request whose body was read and parsed.
IsParsedCreate(r) ==
    r.method = "POST" /\ r.path = AlbumsPath /\ r.body.kind = "obj"

\* C9 (richer variant): a parseable create payload that breaks at least one
\* rule is answered by one 400 validation response that lists exactly the
\* violated keys (id, title, artist as required, price as out-of-range); a
\* payload that breaks none is not answered 400 but with the outcome of the
\* store call.  {} reports id, title and
\* artist; {"price": -1} reports those and price.
C9_AllViolationsReported ==
    \A c \in Clients :
        (variant = 1 /\ pc[c] = "idle" /\ IsParsedCreate(req[c]))
        => LET bad == ViolatedFields(Unmarshal(req[c].body)) IN
           /\ bad # {} => IsValidationError(resp[c], bad)
           /\ bad = {} => resp[c].status \in
                             IF db = "memory" THEN {StatusCreated, StatusConflict}
                             ELSE {StatusInternalServerError}
           /\ req[c].body.has = {}
                => IsValidationError(resp[c], {"id", "title", "artist"})
           /\ (req[c].body.has = {"price"} /\ req[c].body.price = -1)
                => IsValidationError(resp[c], AlbumFields)

\* The payload {"price": -1} has been answered with all four keys.
C9_Witness ==
    \E c \in Clients :
        /\ variant = 1 /\ pc[c] = "idle" /\ IsParsedCreate(req[c])
        /\ req[c].body.has = {"price"} /\ req[c].body.price = -1
        /\ IsValidationError(resp[c], AlbumFields)

\* A payload that breaks only the price rule, at the bound itself, has been
\* answered with the one key.
C9_WitnessBound ==
    \E c \in Clients :
        /\ variant = 1 /\ pc[c] = "idle" /\ IsParsedCreate(req[c])
        /\ req[c].body.price = PriceLimit
        /\ IsValidationError(resp[c], {"price"})

\* The rules the running variant's addAlbum enforces: the leaner variant
\* has no price rule.
EnforcedViolations(v, a) ==
    IF v = 1 THEN ViolatedFields(a) ELSE ViolatedFields(a) \ {"price"}

\* Whether response r says that validation failed.
IsValidationFailure(v, r) ==
    /\ r.status = StatusBadRequest
    /\ IF v = 1
       THEN r.body.kind = "error" /\ r.body.error = ErrorValidation
       ELSE r.body.kind = "text" /\ r.body.text = "missing fields: "

AddAlbumPcs == {"AddAlbum", "AddAlbum:wait", "AddAlbum:check", "AddAlbum:write", "AddAlbum:unlock",
                "addAlbum"}

\* C10: a create request that breaks a rule its variant enforces is
\* answered with the validation failure in the step in which it arrives,
\* without a store call and with the store (map and lock) unchanged; so no
\* goroutine is ever inside AddAlbum, or back from it, with such an album,
\* and no validation failure follows a store call.
C10_InvalidNeverReachesStore ==
    [][\A c \in Clients :
          /\ (pc[c] = "idle" /\ IsParsedCreate(req'[c])
                /\ <<req[c], pc[c], resp[c]>>' # <<req[c], pc[c], resp[c]>>
                /\ EnforcedViolations(variant, Unmarshal(req'[c].body)) # {})
             => /\ pc'[c] = "idle"
                /\ IsValidationFailure(variant, resp'[c])
                /\ ret'[c] = NoRet
                /\ albums' = albums /\ lock' = lock
          /\ pc'[c] \in AddAlbumPcs
             => EnforcedViolations(variant, Unmarshal(req'[c].body)) = {}
          /\ (IsValidationFailure(variant, resp'[c]) /\ resp'[c] # resp[c])
             => pc[c] = "idle" /\ albums' = albums]_vars

\* With an album stored, a create that breaks a rule has been answered 400
\* and has made no store call.
C10_Witness ==
    \E c \in Clients :
        /\ pc[c] = "idle" /\ IsParsedCreate(req[c])
        /\ EnforcedViolations(variant, AlbumOf(c)) # {}
        /\ AlbumOf(c).ID \in DOMAIN albums
        /\ IsValidationFailure(variant, resp[c])
        /\ ret[c] = NoRet


\* Whether response r has status st and, in the richer variant, is the
\* error envelope of kind `kind' without data.
IsFailure(v, r, st, kind) ==
    /\ r.status = st
    /\ v = 1 => /\ r.body.kind = "error"
                /\ r.body.error = kind
                /\ r.body.status = st
                /\ ~r.body.hasData

\* The step in which goroutine c, back from its store call in handler
\* stage p, writes its answer.
Answers(c, p) == pc[c] = p /\ pc'[c] # p

C11_WitnessConflict ==
    \E c \in Clients :
        /\ db = "memory" /\ AddReturned(c) /\ pc[c] = "idle"
        /\ ret[c].err = ErrAlreadyExists
        /\ IsFailure(variant, resp[c], StatusConflict, ErrorAlreadyExists)

\* The step in which a request arrives at goroutine c.
Arrives(c) ==
    /\ pc[c] = "idle"
    /\ <<req[c], pc[c], resp[c], logs[c], written[c]>>'
         # <<req[c], pc[c], resp[c], logs[c], written[c]>>

\* Whether request r is POST /albums.
IsCreate(r) == r.method = "POST" /\ r.path = AlbumsPath

\* Whether response r is the answer to a body that could not be read: 500,
\* in the richer variant with error kind internal and no data.
IsReadFailure(v, r) ==
    /\ IsFailure(v, r, StatusInternalServerError, ErrorInternal)
    /\ v = 2 => r.body.kind = "text" /\ r.body.text = "error reading body"

\* Whether response r is the answer to a body that could not be parsed: 400,
\* in the richer variant with error kind malformed-json and the data
\* {"message": msg}; in the leaner variant with msg in the text.
IsMalformed(v, r, msg) ==
    /\ r.status = StatusBadRequest
    /\ IF v = 1
       THEN /\ r.body.kind = "error"
            /\ r.body.error = ErrorMalformedJSON
            /\ r.body.status = StatusBadRequest
            /\ r.body.hasData
            /\ r.body.data = [kind |-> "debug", message |-> msg]
       ELSE /\ r.body.kind = "text"
            /\ r.body.text = "error unmarshaling JSON: "
            /\ r.body.args = <<msg>>

\* C12: a POST /albums whose body cannot be read is answered 500 (error
\* kind internal), one whose body was read but cannot be parsed is answered
\* 400 (error kind malformed-json) with the parser's message for that body
\* as data; neither answer is given to the other case or to a body that
\* parses; and both are given in the step in which the request arrives,
\* without a store call and with the map and the lock unchanged.
C12_ReadErrorVersusMalformed ==
    [][\A c \in Clients :
          (Arrives(c) /\ IsCreate(req'[c]))
          => LET b == req'[c].body
                 r == resp'[c]
             IN
             /\ (b.kind \notin {"bad", "obj"}) <=> IsReadFailure(variant, r)
             /\ (b.kind = "bad") <=> (\E m \in {UnmarshalError(BadBody),
                                              UnmarshalError(TruncatedBody)} :
                                         IsMalformed(variant, r, m))
             /\ b.kind = "bad" => IsMalformed(variant, r, UnmarshalError(b))
             /\ b.kind # "obj"
                  => /\ pc'[c] = "idle" /\ written'[c] = 1
                     /\ ret'[c] = NoRet
                     /\ albums' = albums /\ lock' = lock]_vars

\* With an album stored, a body of one @ has been answered 400
\* malformed-json with the parser's message about that character.
C12_Witness ==
    \E c \in Clients :
        /\ pc[c] = "idle" /\ IsCreate(req[c])
        /\ req[c].body = BadBody
        /\ DOMAIN albums # {}
        /\ IsMalformed(variant, resp[c],
                       "invalid character '@' looking for beginning of value")
        /\ ret[c] = NoRet

\* With an album stored, a body that fails to read has been answered 500
\* internal.
C12_WitnessReadError ==
    \E c \in Clients :
        /\ pc[c] = "idle" /\ IsCreate(req[c])
        /\ req[c].body = ReadErrBody
        /\ DOMAIN albums # {}
        /\ IsReadFailure(variant, resp[c])

\* The seven fixed error kinds.
ErrorKinds ==
    {ErrorAlreadyExists, ErrorDatabase, ErrorInternal, ErrorMalformedJSON,
     ErrorMethodNotAllowed, ErrorNotFound, ErrorValidation}

\* The status codes the server answers with.
Statuses ==
    {StatusOK, StatusCreated, StatusBadRequest, StatusNotFound,
     StatusMethodNotAllowed, StatusConflict, StatusInternalServerError}

\* Whether response r is a well-formed JSON response: the JSON UTF-8 content
\* type, and for a failure status the envelope with one of the fixed kinds
\* and the status repeated in it, for a success status an album or a list.
IsJSONResponse(r) ==
    /\ r.status \in Statuses
    /\ r.ctype = ContentTypeJSON
    /\ IF r.status \in {StatusOK, StatusCreated}
       THEN r.body.kind \in {"obj", "list"}
       ELSE /\ r.body.kind = "error"
            /\ r.body.error \in ErrorKinds
            /\ r.body.status = r.status
            /\ r.body.hasData <=> r.body.data # NilData

\* C13 (richer variant): every response written, to every request and with
\* every outcome, has status 200, 201, 400, 404, 405, 409 or 500 and declares
\* the content type application/json; charset=utf-8; every failure response
\* is the envelope whose error is one of the seven kinds and whose status
\* field is the HTTP status, with data left out when there is none.
C13_EveryResponseIsJSON ==
    \A c \in Clients :
        (variant = 1 /\ written[c] > 0) => IsJSONResponse(resp[c])

\* A request has been answered 500 with error kind database, as JSON.
C13_Witness ==
    \E c \in Clients :
        /\ variant = 1 /\ written[c] > 0
        /\ resp[c].status = StatusInternalServerError
        /\ resp[c].body.error = ErrorDatabase
        /\ IsJSONResponse(resp[c])

\* Goroutine c is inside the critical section of AddAlbum: it has taken
\* the lock and not yet released it.
InInsert(c) == pc[c] \in {"AddAlbum:check", "AddAlbum:write", "AddAlbum:unlock"}

\* Goroutine c is inside the critical section of GetAlbums or GetAlbumByID.
InRead(c) ==
    pc[c] \in {"GetAlbums:read", "GetAlbums:unlock",
               "GetAlbumByID:read", "GetAlbumByID:unlock"}

\* Goroutine c has called Lock in AddAlbum, which has announced it to the
\* readers and waits for those inside to leave.
InsertWaits(c) == pc[c] = "AddAlbum:wait"

\* Goroutine c has called GetAlbums or GetAlbumByID of the MemoryDatabase
\* and is waiting for the lock.
AtReadLock(c) == db = "memory" /\ pc[c] \in {"GetAlbums", "GetAlbumByID"}

\* While an insert is inside its critical section, no other goroutine is
\* inside one.
InsertExcludesAll ==
    \A c, d \in Clients : (c # d /\ InInsert(c)) => ~InInsert(d) /\ ~InRead(d)

\* The lock is held by the goroutines inside a critical section and by no
\* other: a goroutine that reads or parses the body, validates, or writes
\* its response (every other pc) holds no lock.
LockHeldOnlyInside ==
    IF variant = 1
    THEN /\ lock.w <=> (\E c \in Clients : InInsert(c))
         /\ lock.r = Cardinality({c \in Clients : InRead(c)})
         /\ lock.p <=> (\E c \in Clients : InsertWaits(c))
    ELSE /\ lock.w <=> (\E c \in Clients : InInsert(c) \/ InRead(c))
         /\ lock.r = 0 /\ ~lock.p

\* A list or get-by-ID that waits for the lock is held up by an insert
\* only (one inside its critical section, or one waiting to get in): other
\* readers inside their critical sections do not stop it.
ReadersShare ==
    \A c \in Clients :
        (AtReadLock(c) /\ ~\E d \in Clients : InInsert(d) \/ InsertWaits(d))
        => ENABLED (GetAlbumsLock(c) \/ GetAlbumByIDLock(c))

\* At most one goroutine is inside any critical section.
OneAtATime ==
    \A c, d \in Clients :
        (c # d /\ (InInsert(c) \/ InRead(c))) => ~InInsert(d) /\ ~InRead(d)

\* C14 as stated: in every reachable state an insert inside its critical
\* section excludes every other store operation, list and get-by-ID take a
\* shared lock and so do not hold each other up, and the lock is held only
\* inside the store's operations.
C14_LockDiscipline ==
    InsertExcludesAll /\ ReadersShare /\ LockHeldOnlyInside

\* C14 as amended: the statement of C14 holds of the richer variant
\* (sync.RWMutex); in the leaner variant (sync.Mutex) list and get-by-ID
\* take the same exclusive lock as insert, so that at most one goroutine is
\* inside any store operation, readers included.
C14_LockDisciplinePerVariant ==
    /\ InsertExcludesAll
    /\ LockHeldOnlyInside
    /\ variant = 1 => ReadersShare
    /\ variant = 2 => OneAtATime

\* In the richer variant a list and a get-by-ID are inside their critical
\* sections at the same time.
C14_Witness ==
    \E c, d \in Clients :
        /\ variant = 1 /\ c # d
        /\ pc[c] = "GetAlbums:read"
        /\ pc[d] \in {"GetAlbumByID:read", "GetAlbumByID:unlock"}
        /\ lock.r = 2

\* In the leaner variant a get-by-ID waits for the lock while a list is
\* inside its critical section.
C14_WitnessLeaner ==
    \E c, d \in Clients :
        /\ variant = 2 /\ c # d
        /\ pc[c] = "GetAlbumByID" /\ pc[d] = "GetAlbums:read"
        /\ lock.w

\* The handler stages in which a goroutine is back from its store call.
HandlerStages == {"getAlbums", "getAlbumByID", "addAlbum"}

\* The store call that came back failed.
StoreFailed(c) == ret[c].err # "nil"

\* The store call that came back failed with an error other than the two
\* the store's interface names.
StoreFailedOpaquely(c) ==
    ret[c].err \notin {"nil", ErrDoesNotExist, ErrAlreadyExists}

\* The line with which handler stage p logs a failure.
FailureLine(p) ==
    IF p = "getAlbums" THEN "error fetching albums: %v"
    ELSE IF p = "getAlbumByID" THEN "error fetching album ID %q: %v"
    ELSE "error adding album ID %q: %v"

\* No step between the arrival of a request and its answer writes to the
\* log of goroutine c.
LogsOnlyAtArrivalAndAnswer(c) ==
    (~Arrives(c) /\ \A p \in HandlerStages : ~Answers(c, p))
    => logs'[c] = logs[c]

\* C15 as stated (richer variant): the step in which a handler sees that its
\* store call failed, with NotFound, Conflict or any other error, adds
\* exactly one line to the log, and no other step of the request logs it.
C15_EveryStoreFailureLoggedOnce ==
    [][\A c \in Clients :
          variant = 1
          => /\ \A p \in HandlerStages :
                  (Answers(c, p) /\ StoreFailed(c))
                  => \E line \in {FailureLine(q) : q \in HandlerStages} :
                        logs'[c] = Append(logs[c], line)
             /\ LogsOnlyAtArrivalAndAnswer(c)]_vars

\* C15 as amended: in the richer variant the step in which a handler sees
\* that its store call failed with an error other than NotFound and
\* Conflict adds exactly one line, the handler's own, to the log; NotFound,
\* Conflict and success are answered without a line; no other step of the
\* request logs the failure.  The leaner variant logs no store failure.
C15_OpaqueStoreFailureLoggedOnce ==
    [][\A c \in Clients :
          /\ \A p \in HandlerStages :
               Answers(c, p)
               => IF variant = 1 /\ StoreFailedOpaquely(c)
                  THEN logs'[c] = Append(logs[c], FailureLine(p))
                  ELSE logs'[c] = logs[c]
          /\ LogsOnlyAtArrivalAndAnswer(c)]_vars

\* On an errorDatabase a get-by-ID has been answered 500, and the log of
\* the request holds the request line and one line for the failure.
C15_Witness ==
    \E c \in Clients :
        /\ variant = 1 /\ db = "error"
        /\ GetReturned(c) /\ pc[c] = "idle"
        /\ resp[c].status = StatusInternalServerError
        /\ logs[c] = <<"%s %s", "error fetching album ID %q: %v">>

\* On a MemoryDatabase a create of a stored ID has been answered 409, and
\* the log of the request holds the request line only.
C15_WitnessConflict ==
    \E c \in Clients :
        /\ variant = 1 /\ db = "memory"
        /\ AddReturned(c) /\ pc[c] = "idle"
        /\ ret[c].err = ErrAlreadyExists
        /\ resp[c].status = StatusConflict
        /\ logs[c] = <<"%s %s">>

\* No goroutine is inside a critical section.
NoneInside == \A c \in Clients : ~InInsert(c) /\ ~InRead(c)

\* Once every operation that took the lock has returned, the lock is free:
\* each operation released what it took, on whichever path it returned.
LocksReleased == NoneInside => ~lock.w /\ lock.r = 0

\* A request in progress can always take a step: no interleaving of list,
\* get-by-ID and insert leaves every goroutine with a request waiting.
NoDeadlock ==
    (\E c \in Clients : pc[c] # "idle") => ENABLED (\E c \in Clients : Step(c))

\* A request in progress has no response yet, and a served one has one.
OneResponse ==
    \A c \in Clients :
        /\ pc[c] # "idle" => written[c] = 0
        /\ (pc[c] = "idle" /\ req[c].method # "") => written[c] = 1

\* C16: every store operation releases the lock it took on every return
\* path, so the lock is free whenever no operation is inside; no reachable
\* state is a deadlock; and under fair scheduling every request that was
\* started is eventually answered (its goroutine is idle again, however
\* often it is given a request), exactly once.
C16_LocksReleasedAndRequestsAnswered ==
    /\ [](LocksReleased /\ NoDeadlock /\ OneResponse)
    /\ \A c \in Clients : []<>(pc[c] = "idle")

\* A create has returned ErrAlreadyExists and a get-by-ID ErrDoesNotExist,
\* both have been answered once, and the lock is free.
C16_Witness ==
    \E c, d \in Clients :
        /\ c # d /\ pc[c] = "idle" /\ pc[d] = "idle"
        /\ AddReturned(c) /\ ret[c].err = ErrAlreadyExists
        /\ GetReturned(d) /\ ret[d].err = ErrDoesNotExist
        /\ written[c] = 1 /\ written[d] = 1
        /\ lock = [w |-> FALSE, r |-> 0, p |-> FALSE]

\* A create waits for the lock while another goroutine is inside a
\* critical section.
C16_WitnessWaiting ==
    \E c, d \in Clients :
        /\ c # d /\ db = "memory" /\ pc[c] = "AddAlbum"
        /\ InRead(d) \/ InInsert(d)

\* C17: every album in the store has a non-empty id, title and artist and
\* a price within [0, PriceLimit), and is stored under the key equal to its
\* own id.  (Albums enter the store only through POST /albums.)
C17_StoredAlbumsSatisfyModel ==
    \A id \in DOMAIN albums :
        /\ ViolatedFields(albums[id]) = {}
        /\ albums[id].ID = id

\* C17, for the rules each variant enforces: in the richer variant the
\* statement of C17 holds; in the leaner variant every stored album has a
\* non-empty id, title and artist and is stored under its own id.
C17_StoredAlbumsSatisfyEnforcedRules ==
    \A id \in DOMAIN albums :
        /\ EnforcedViolations(variant, albums[id]) = {}
        /\ albums[id].ID = id
=============================================================================
